---- MODULE Spec2Model ----
(***************************************************************************)
(* Model of lib/config/index.js: parseConfigs (the configuration pipeline), *)
(* repoName, mergeChildConfig and filterConfig.                             *)
(*                                                                          *)
(* A configuration object is a function from the option names it holds to   *)
(* their values; a key outside its DOMAIN reads as JavaScript's undefined.  *)
(***************************************************************************)
EXTENDS Integers, Sequences, FiniteSets, TLC

\* ------------------------------------------------------------------ bounds
\* longest repository list one source configures
MaxRepos == 2
\* longest list a platform's getRepos returns
MaxDiscovered == 2
\* longest value of a list option handed to mergeChildConfig
MaxListLen == 2

\* ------------------------------------------------------- objects and values
EmptyObj == [k \in {} |-> TRUE]

Has(obj, k) == k \in DOMAIN obj

\* { ...a, ...b }: own keys of both, b's value where both hold the key
Spread(a, b) == [k \in DOMAIN a \cup DOMAIN b |-> IF k \in DOMAIN b THEN b[k] ELSE a[k]]

\* delete obj[k]
Delete(obj, k) == [x \in DOMAIN obj \ {k} |-> obj[x]]

\* !!obj[k] for a string-valued key: undefined and "" are falsy
TruthyStr(obj, k) == Has(obj, k) /\ obj[k] # ""

\* !!obj[k] for a boolean-valued key
TruthyBool(obj, k) == Has(obj, k) /\ obj[k] = TRUE

\* all sequences over S of length at most n
SeqUpTo(S, n) == UNION {[1..m -> S] : m \in 0..n}

\* the objects that hold key k with a value of S, or do not hold it
Opt(k, S) == {EmptyObj} \cup {(k :> v) : v \in S}

\* ------------------------------------------------------ repository entries
BareRepo(s) == [kind |-> "string", name |-> s]
ObjectRepo(o) == [kind |-> "object", cfg |-> o]
NullRepo == [kind |-> "null"]

\* entries a user configures
ConfiguredEntries ==
    { BareRepo("org/a"),
      ObjectRepo([repository |-> "org/a", extends |-> <<":base">>]),
      ObjectRepo([repository |-> "org/b", extends |-> <<":pinVersions">>]),
      NullRepo }

\* entries a platform lists
DiscoveredEntries == { BareRepo("org/a"), BareRepo("org/b"), BareRepo("") }

RepoLists == SeqUpTo(ConfiguredEntries, MaxRepos)

DiscoveredLists == SeqUpTo(DiscoveredEntries, MaxDiscovered)

\* ---------------------------------------------------------- option registry
\* definitions.getOptions(): a bounded registry, one option per stage, one
\* without a stage, a mergeable list and a mergeable object option
Options ==
    << [name |-> "logLevel",            type |-> "string",  stage |-> "global",      mergeable |-> FALSE],
       [name |-> "token",               type |-> "string",  stage |-> "repository",  mergeable |-> FALSE],
       [name |-> "lockFileMaintenance", type |-> "json",    stage |-> "packageFile", mergeable |-> TRUE],
       [name |-> "packageRules",        type |-> "list",    stage |-> "depType",     mergeable |-> TRUE],
       [name |-> "enabled",             type |-> "boolean", stage |-> "package",     mergeable |-> FALSE],
       [name |-> "branchName",          type |-> "string",  stage |-> "branch",      mergeable |-> FALSE],
       [name |-> "prTitle",             type |-> "string",  stage |-> "pr",          mergeable |-> FALSE],
       [name |-> "labels",              type |-> "list",    stage |-> "undefined",   mergeable |-> FALSE] >>

OptionNames == {Options[i].name : i \in 1..Len(Options)}

\* !!obj[option.name]: a list or an object is truthy whenever it is defined
Truthy(obj, option) ==
    /\ Has(obj, option.name)
    /\ CASE option.type = "string"  -> obj[option.name] # ""
         [] option.type = "boolean" -> obj[option.name] = TRUE
         [] OTHER                   -> TRUE

\* ------------------------------------------------------------ filterConfig
stages == <<"global", "repository", "packageFile", "depType", "package", "branch", "pr">>

\* Array.prototype.indexOf: the 0-based index of x, -1 when s does not hold it
IndexOf(s, x) ==
    IF \E i \in 1..Len(s) : s[i] = x
    THEN (CHOOSE i \in 1..Len(s) : s[i] = x /\ \A j \in 1..(i-1) : s[j] # x) - 1
    ELSE -1

\* the test of line 193 with < replaced by "is the stage right before"
RemovesOption_previousOnly(optionIndex, targetIndex) ==
    optionIndex # -1 /\ optionIndex = targetIndex - 1

\* the test of line 193 with < replaced by <=
RemovesOption_inclusive(optionIndex, targetIndex) ==
    optionIndex # -1 /\ optionIndex <= targetIndex

\* line 193: is the option's key deleted from the output
RemovesOption(optionIndex, targetIndex) ==
    optionIndex # -1 /\ optionIndex < targetIndex

RECURSIVE FilterLoop(_, _, _)
FilterLoop(outputConfig, targetIndex, i) ==
    IF i > Len(Options) THEN outputConfig
    ELSE LET option == Options[i]
             optionIndex == IndexOf(stages, option.stage)
         IN  FilterLoop(IF RemovesOption(optionIndex, targetIndex)
                        THEN Delete(outputConfig, option.name)
                        ELSE outputConfig,
                        targetIndex, i + 1)

filterConfig(inputConfig, targetStage) ==
    FilterLoop(Spread(EmptyObj, inputConfig), IndexOf(stages, targetStage), 1)

\* -------------------------------------------------------- mergeChildConfig
Undefined == [defined |-> FALSE]
Some(v) == [defined |-> TRUE, val |-> v]

\* lines 160-162 with the operands of concat exchanged
ConcatLists_childFirst(parentList, childList) == childList \o parentList

\* lines 160-162: (parentConfig[name] || []).concat(config[name] || [])
ConcatLists(parentList, childList) == parentList \o childList

RECURSIVE MergeLoop(_, _, _, _)
MergeLoop(config, parentConfig, childConfig, i) ==
    IF i > Len(Options) THEN config
    ELSE LET option == Options[i]
             name == option.name
         IN  MergeLoop(
                 IF option.mergeable /\ Truthy(childConfig, option) /\ Truthy(parentConfig, option)
                 THEN IF option.type = "list"
                      THEN [config EXCEPT ![name] = ConcatLists(parentConfig[name], config[name])]
                      ELSE [config EXCEPT ![name] = Spread(parentConfig[name], childConfig[name])]
                 ELSE config,
                 parentConfig, childConfig, i + 1)

\* lines 151-175: the merge of two objects, a fresh object
MergeObjects(parentConfig, childConfig) ==
    MergeLoop(Spread(parentConfig, childConfig), parentConfig, childConfig, 1)

\* the returned reference ("parentConfig" when the parent itself is returned)
\* and the object it refers to
mergeChildConfig(parentConfig, childConfig) ==
    IF ~childConfig.defined
    THEN [ref |-> "parentConfig", val |-> parentConfig]
    ELSE [ref |-> "config", val |-> MergeObjects(parentConfig, childConfig.val)]

\* ------------------------------------------------------------------ repoName
\* the identifier of an entry: a name, or the entry itself (compared by
\* reference, so equal to no other entry); undefined behaviour is a TypeError
\* (hasOwnProperty.call(null))
Name(s) == [isName |-> TRUE, name |-> s]
Self == [isName |-> FALSE]

RepoNameThrows(repo) == repo.kind = "null"

\* repoName that ignores the repository field of an object entry
repoName_noField(repo) ==
    IF repo.kind = "string" THEN Name(repo.name) ELSE Self

repoName(repo) ==
    IF repo.kind = "object" /\ Has(repo.cfg, "repository") THEN Name(repo.cfg.repository)
    ELSE IF repo.kind = "string" THEN Name(repo.name)
    ELSE Self

\* repoName(r) === newRepoName
SameName(a, b) == a.isName /\ b.isName /\ a.name = b.name

\* !!newRepoName
TruthyName(n) == ~n.isName \/ n.name # ""

\* ------------------------------------------------------------ preset resolver
\* fetchPreset(reference): the raw definition of a named preset
fetchPreset(ref) ==
    IF ref = ":base" THEN [extends |-> <<":pinVersions">>, labels |-> <<"renovate">>]
    ELSE [pinVersions |-> TRUE]

HasPresets(cfg) == Has(cfg, "extends") /\ Len(cfg.extends) > 0

\* resolve(config): the presets of config.extends expanded recursively, folded
\* in listed order, beneath the explicit keys of config
RECURSIVE resolveConfigPresets(_)
RECURSIVE FoldPresets(_, _, _)
FoldPresets(refs, i, acc) ==
    IF i > Len(refs) THEN acc
    ELSE FoldPresets(refs, i + 1, MergeObjects(acc, resolveConfigPresets(fetchPreset(refs[i]))))

resolveConfigPresets(cfg) ==
    IF ~HasPresets(cfg) THEN cfg
    ELSE Spread(FoldPresets(cfg.extends, 1, EmptyObj), Delete(cfg, "extends"))

\* ------------------------------------------------------ the four sources
\* defaultsParser.getConfig()
DefaultConfigs ==
    { [logLevel |-> "error", repositories |-> <<>>],
      [logLevel |-> "error", repositories |-> <<>>, platform |-> "github",
       autodiscover |-> FALSE, logFileLevel |-> "debug"] }

\* fileParser.getConfig(env)
FileConfigs ==
    { p @@ t @@ r @@ x :
        p \in Opt("platform", {"gitlab", "bitbucket"}),
        t \in Opt("token", {"abc"}),
        r \in Opt("repositories", RepoLists),
        x \in {EmptyObj, [logFile |-> "renovate.log"], [extends |-> <<":base">>]} }

\* cliParser.getConfig(argv)
CliConfigs ==
    { p @@ t @@ a :
        p \in Opt("platform", {"vsts"}),
        t \in Opt("token", {""}),
        a \in Opt("autodiscover", {TRUE}) }

\* envParser.getConfig(env)
EnvConfigs == Opt("platform", {"gitlab"})

\* the platform credentials of the process environment
Envs ==
    { EmptyObj, [GITHUB_TOKEN |-> "gh"], [GITLAB_TOKEN |-> "gl"], [VSTS_TOKEN |-> "vs"] }

\* ------------------------------------------------------------ parseConfigs
\* lines 30-33 with the CLI source spread last
MergeSources_cliLast(d, f, c, e) == Spread(Spread(Spread(d, f), e), c)

\* lines 29-34: { ...defaultConfig, ...fileConfig, ...cliConfig, ...envConfig }
MergeSources(d, f, c, e) == Spread(Spread(Spread(d, f), c), e)

NoError == "none"
GithubTokenError == "You need to supply a GitHub token."
GitlabTokenError == "You need to supply a GitLab token."
VstsTokenError == "You need to supply a VSTS token."
UnsupportedPlatformError == "Unsupported platform"
TypeError == "TypeError"
PresetError == "preset resolution failed"
ListerError == "getRepos failed"

PlatformIs(cfg, p) == Has(cfg, "platform") /\ cfg.platform = p

\* what line 72 does without its else branch
UnsupportedPlatform_ignored(cfg) == NoError

\* lines 72-74: the else branch
UnsupportedPlatform(cfg) == UnsupportedPlatformError

\* a token check that accepts the credential of any platform
MissingToken_anyCredential(cfg, e, key) ==
    ~TruthyStr(cfg, "token") /\ \A k \in DOMAIN e : ~TruthyStr(e, k)

\* lines 61, 65, 69: !config.token && !env.<key>
MissingToken(cfg, e, key) == ~TruthyStr(cfg, "token") /\ ~TruthyStr(e, key)

\* lines 59-74: the error thrown by the platform and token check, or none
CheckPlatform(cfg, e) ==
    IF PlatformIs(cfg, "github")
    THEN IF MissingToken(cfg, e, "GITHUB_TOKEN") THEN GithubTokenError ELSE NoError
    ELSE IF PlatformIs(cfg, "gitlab")
    THEN IF MissingToken(cfg, e, "GITLAB_TOKEN") THEN GitlabTokenError ELSE NoError
    ELSE IF PlatformIs(cfg, "vsts")
    THEN IF MissingToken(cfg, e, "VSTS_TOKEN") THEN VstsTokenError ELSE NoError
    ELSE UnsupportedPlatform(cfg)

\* lines 100-102: the index of the first configured entry with the name, 0 when
\* there is none, -1 when repoName throws on an entry reached before a match
RECURSIVE Find(_, _, _)
Find(repositories, newRepoName, i) ==
    IF i > Len(repositories) THEN 0
    ELSE IF RepoNameThrows(repositories[i]) THEN -1
    ELSE IF SameName(repoName(repositories[i]), newRepoName) THEN i
    ELSE Find(repositories, newRepoName, i + 1)

\* lines 98-112: the loop over the discovered repositories
RECURSIVE MergeLoopDiscovered(_, _, _)
MergeLoopDiscovered(repositories, disc, i) ==
    IF i > Len(disc) THEN [threw |-> FALSE, repos |-> repositories]
    ELSE IF RepoNameThrows(disc[i]) THEN [threw |-> TRUE, repos |-> repositories]
    ELSE LET newRepoName == repoName(disc[i])
             found == IF TruthyName(newRepoName) THEN Find(repositories, newRepoName, 1) ELSE 0
         IN  IF found = -1 THEN [threw |-> TRUE, repos |-> repositories]
             ELSE IF found > 0 THEN MergeLoopDiscovered(repositories, disc, i + 1)
             ELSE MergeLoopDiscovered(Append(repositories, disc[i]), disc, i + 1)

\* lines 80-95: the platforms whose getRepos is called
ListerOf(cfg) ==
    IF PlatformIs(cfg, "github") THEN <<"github">>
    ELSE IF PlatformIs(cfg, "gitlab") THEN <<"gitlab">>
    ELSE IF PlatformIs(cfg, "vsts") THEN <<"vsts">>
    ELSE <<>>

\* a soft fail that never returns early
SoftFail_fallThrough(disc) == FALSE

\* lines 97, 113-119: no repository discovered, return config
SoftFail(disc) == Len(disc) = 0

\* lines 135-136: delete config.logFile; delete config.logFileLevel
StripLogKeys(cfg) == Delete(Delete(cfg, "logFile"), "logFileLevel")

\* line 125: repo !== null && !Array.isArray(repo) && typeof repo === 'object'
IsObjectEntry(repo) == repo.kind = "object"

\* results kept in the order the resolutions complete
SettleAt_completionOrder(res, i, v) ==
    LET j == CHOOSE k \in DOMAIN res : ~res[k].defined /\ \A m \in 1..(k-1) : res[m].defined
    IN  [res EXCEPT ![j] = Some(v)]

\* line 123: Promise.all keeps the value of promise i at position i
SettleAt(res, i, v) == [res EXCEPT ![i] = Some(v)]

\* ------------------------------------------------------------------- state
VARIABLES
    pc,             \* where parseConfigs is: start, presets, getRepos, repoPresets, done, error
    env,            \* the env argument of parseConfigs
    defaultConfig,  \* the four source objects (locals, last read on line 54)
    fileConfig,
    cliConfig,
    envConfig,
    presetInput,    \* the object handed to resolveConfigPresets on line 29
    config,         \* the configuration object of the run, once line 29 has bound it
    logStream,      \* the paths given to logger.addStream
    listerCalls,    \* the platforms whose getRepos was called, in call order
    discovered,     \* the repositories the lister returned, once it has
    mapped,         \* config.repositories as mapped on line 124
    resolverCalls,  \* per entry of mapped, the calls of resolveConfigPresets on it
    results,        \* per entry of mapped, the value its promise settled with
    pending,        \* the entries of mapped whose resolution is still running
    settled,        \* the entries of mapped whose resolution completed, in completion order
    error,          \* the error parseConfigs rejected with
    parentConfig,   \* mergeChildConfig: its arguments and its result
    childConfig,
    mergeArgs,
    mergeResult,
    inputConfig,    \* filterConfig: its argument, the target stages and results
    filterArg,
    targetStage,
    outputConfig,
    prevStage,
    prevOutput

parseVars ==
    <<pc, env, defaultConfig, fileConfig, cliConfig, envConfig, presetInput, config,
      logStream, listerCalls, discovered, mapped, resolverCalls, results, pending, settled,
      error>>

mergeVars == <<parentConfig, childConfig, mergeArgs, mergeResult>>

filterVars == <<inputConfig, filterArg, targetStage, outputConfig, prevStage, prevOutput>>

vars == <<parseVars, mergeVars, filterVars>>

ParseIdle ==
    /\ pc = "idle" /\ env = EmptyObj
    /\ defaultConfig = EmptyObj /\ fileConfig = EmptyObj
    /\ cliConfig = EmptyObj /\ envConfig = EmptyObj
    /\ presetInput = EmptyObj /\ config = Undefined
    /\ logStream = <<>> /\ listerCalls = <<>> /\ discovered = Undefined
    /\ mapped = <<>> /\ resolverCalls = <<>> /\ results = <<>> /\ pending = {}
    /\ settled = <<>>
    /\ error = NoError

MergeIdle ==
    /\ parentConfig = EmptyObj /\ childConfig = Undefined
    /\ mergeArgs = <<>> /\ mergeResult = Undefined

FilterIdle ==
    /\ inputConfig = EmptyObj /\ filterArg = EmptyObj
    /\ targetStage = "" /\ outputConfig = Undefined
    /\ prevStage = "" /\ prevOutput = Undefined

\* parseConfigs(env, argv) is called
Init ==
    /\ pc = "start" /\ env \in Envs
    /\ defaultConfig = EmptyObj /\ fileConfig = EmptyObj
    /\ cliConfig = EmptyObj /\ envConfig = EmptyObj
    /\ presetInput = EmptyObj /\ config = Undefined
    /\ logStream = <<>> /\ listerCalls = <<>> /\ discovered = Undefined
    /\ mapped = <<>> /\ resolverCalls = <<>> /\ results = <<>> /\ pending = {}
    /\ settled = <<>>
    /\ error = NoError
    /\ MergeIdle /\ FilterIdle

\* lines 20-34: the sources are read and merged, resolveConfigPresets is called
ParseStart ==
    /\ pc = "start"
    /\ \E d \in DefaultConfigs, f \in FileConfigs, c \in CliConfigs, e \in EnvConfigs :
        /\ defaultConfig' = d /\ fileConfig' = f /\ cliConfig' = c /\ envConfig' = e
        /\ presetInput' = MergeSources(d, f, c, e)
    /\ pc' = "presets"
    /\ UNCHANGED <<settled, env, config, logStream, listerCalls, discovered, mapped,
                   resolverCalls, results, pending, error>>

\* line 29: the resolution of the global presets fails
GlobalPresetsRejected ==
    /\ pc = "presets" /\ HasPresets(presetInput)
    /\ pc' = "error" /\ error' = PresetError
    /\ UNCHANGED <<settled, env, defaultConfig, fileConfig, cliConfig, envConfig, presetInput,
                   config, logStream, listerCalls, discovered, mapped, resolverCalls,
                   results, pending>>

\* lines 122-137 from configuration cfg: every entry is mapped to a promise
\* (line 124), or, with no entry, the log keys go and cfg is returned
MapRepositories(cfg) ==
    IF Has(cfg, "repositories") /\ Len(cfg.repositories) > 0
    THEN /\ config' = Some(cfg)
         /\ mapped' = cfg.repositories
         /\ resolverCalls' = [i \in DOMAIN cfg.repositories |->
                                 IF IsObjectEntry(cfg.repositories[i]) THEN 1 ELSE 0]
         /\ results' = [i \in DOMAIN cfg.repositories |->
                           IF IsObjectEntry(cfg.repositories[i]) THEN Undefined
                           ELSE Some(cfg.repositories[i])]
         /\ pending' = {i \in DOMAIN cfg.repositories : IsObjectEntry(cfg.repositories[i])}
         /\ pc' = "repoPresets"
    ELSE /\ config' = Some(StripLogKeys(cfg))
         /\ pc' = "done"
         /\ UNCHANGED <<mapped, resolverCalls, results, pending>>

\* lines 29-95 and 122-137: the global presets are resolved; the log stream is
\* added, platform and token are checked, and the run goes on to the lister
\* (with no lister to call, discovered stays empty and line 118 returns) or
\* to the repositories. The four source objects are logged on lines 51-54 and
\* never read again: they leave the state here.
GlobalPresetsResolved ==
    /\ pc = "presets"
    /\ LET cfg == resolveConfigPresets(presetInput)
           thrown == CheckPlatform(cfg, env)
       IN  /\ logStream' = IF TruthyStr(cfg, "logFile") THEN <<cfg.logFile>> ELSE <<>>
           /\ IF thrown # NoError
              THEN /\ config' = Some(cfg) /\ pc' = "error" /\ error' = thrown
                   /\ UNCHANGED <<listerCalls, mapped, resolverCalls, results, pending>>
              ELSE IF TruthyBool(cfg, "autodiscover")
              THEN /\ config' = Some(cfg)
                   /\ listerCalls' = listerCalls \o ListerOf(cfg)
                   /\ pc' = IF ListerOf(cfg) # <<>> THEN "getRepos" ELSE "done"
                   /\ UNCHANGED <<error, mapped, resolverCalls, results, pending>>
              ELSE /\ MapRepositories(cfg)
                   /\ UNCHANGED <<error, listerCalls>>
    /\ defaultConfig' = EmptyObj /\ fileConfig' = EmptyObj
    /\ cliConfig' = EmptyObj /\ envConfig' = EmptyObj
    /\ UNCHANGED <<settled, env, presetInput, discovered>>

\* lines 83, 88, 93: the platform's getRepos fails
GetReposRejected ==
    /\ pc = "getRepos"
    /\ pc' = "error" /\ error' = ListerError
    /\ UNCHANGED <<settled, env, defaultConfig, fileConfig, cliConfig, envConfig, presetInput,
                   config, logStream, listerCalls, discovered, mapped, resolverCalls,
                   results, pending>>

\* lines 83-137: the platform's getRepos returns; the discovered repositories
\* are merged into config.repositories, or config is returned at once
GetReposReturned ==
    /\ pc = "getRepos"
    /\ \E disc \in DiscoveredLists :
        /\ discovered' = Some(disc)
        /\ IF SoftFail(disc)
           THEN /\ pc' = "done"
                /\ UNCHANGED <<config, error, mapped, resolverCalls, results, pending>>
           ELSE LET m == MergeLoopDiscovered(config.val.repositories, disc, 1)
                IN  IF m.threw
                    THEN /\ pc' = "error" /\ error' = TypeError
                         /\ UNCHANGED <<config, mapped, resolverCalls, results, pending>>
                    ELSE /\ MapRepositories([config.val EXCEPT !.repositories = m.repos])
                         /\ UNCHANGED error
    /\ UNCHANGED <<settled, env, defaultConfig, fileConfig, cliConfig, envConfig, presetInput,
                   logStream, listerCalls>>

\* line 126: the resolution of entry i completes
RepoPresetsResolved(i) ==
    /\ pc = "repoPresets" /\ i \in pending
    /\ results' = SettleAt(results, i, ObjectRepo(resolveConfigPresets(mapped[i].cfg)))
    /\ pending' = pending \ {i}
    /\ settled' = Append(settled, i)
    /\ UNCHANGED <<pc, env, defaultConfig, fileConfig, cliConfig, envConfig, presetInput,
                   config, logStream, listerCalls, discovered, mapped, resolverCalls, error>>

\* lines 123, 126: the resolution of entry i fails and Promise.all rejects
RepoPresetsRejected(i) ==
    /\ pc = "repoPresets" /\ i \in pending /\ HasPresets(mapped[i].cfg)
    /\ pc' = "error" /\ error' = PresetError
    /\ UNCHANGED <<settled, env, defaultConfig, fileConfig, cliConfig, envConfig, presetInput,
                   config, logStream, listerCalls, discovered, mapped, resolverCalls,
                   results, pending>>

\* lines 123, 132-137: every promise has settled; the results replace
\* config.repositories, the log keys go and config is returned
AllResolved ==
    /\ pc = "repoPresets" /\ pending = {}
    /\ config' = Some(StripLogKeys([config.val EXCEPT !.repositories =
                                        [i \in DOMAIN results |-> results[i].val]]))
    /\ pc' = "done"
    /\ UNCHANGED <<settled, env, defaultConfig, fileConfig, cliConfig, envConfig, presetInput,
                   logStream, listerCalls, discovered, mapped, resolverCalls, results,
                   pending, error>>

Next ==
    \/ ParseStart /\ UNCHANGED <<mergeVars, filterVars>>
    \/ GlobalPresetsRejected /\ UNCHANGED <<mergeVars, filterVars>>
    \/ GlobalPresetsResolved /\ UNCHANGED <<mergeVars, filterVars>>
    \/ GetReposRejected /\ UNCHANGED <<mergeVars, filterVars>>
    \/ GetReposReturned /\ UNCHANGED <<mergeVars, filterVars>>
    \/ (\E i \in DOMAIN mapped : RepoPresetsResolved(i)) /\ UNCHANGED <<mergeVars, filterVars>>
    \/ (\E i \in DOMAIN mapped : RepoPresetsRejected(i)) /\ UNCHANGED <<mergeVars, filterVars>>
    \/ AllResolved /\ UNCHANGED <<mergeVars, filterVars>>

Spec == Init /\ [][Next]_vars

\* -------------------------------------------- mergeChildConfig, called alone
RuleLists == SeqUpTo({"r1", "r2"}, MaxListLen)

ParentConfigs ==
    { r @@ m @@ l @@ u :
        r \in Opt("packageRules", RuleLists),
        m \in Opt("lockFileMaintenance", {EmptyObj, [enabled |-> TRUE, schedule |-> "monday"]}),
        l \in Opt("labels", {<<"dep">>}),
        u \in Opt("custom", {"parent"}) }

ChildConfigs ==
    { r @@ m @@ l @@ u :
        r \in Opt("packageRules", RuleLists),
        m \in Opt("lockFileMaintenance",
                  {EmptyObj, [enabled |-> FALSE], [schedule |-> "friday", recreate |-> TRUE]}),
        l \in Opt("labels", {<<>>, <<"bot">>}),
        u \in Opt("custom", {"child"}) }

InitMerge ==
    /\ ParseIdle /\ FilterIdle
    /\ parentConfig \in ParentConfigs
    /\ childConfig \in {Undefined} \cup {Some(c) : c \in ChildConfigs}
    /\ mergeArgs = <<parentConfig, childConfig>>
    /\ mergeResult = Undefined

\* lines 146-176: mergeChildConfig(parentConfig, childConfig) runs; it assigns
\* to neither argument
MergeCall ==
    /\ ~mergeResult.defined
    /\ mergeResult' = Some(mergeChildConfig(parentConfig, childConfig))
    /\ UNCHANGED <<parentConfig, childConfig, mergeArgs>>

NextMerge == MergeCall /\ UNCHANGED <<parseVars, filterVars>>

SpecMerge == InitMerge /\ [][NextMerge]_vars

\* ------------------------------------------------ filterConfig, called alone
FilterConfigs ==
    { a @@ b @@ c @@ d @@ e @@ f @@ g @@ h @@ u :
        a \in Opt("logLevel", {"error"}),
        b \in Opt("token", {"abc"}),
        c \in Opt("lockFileMaintenance", {[enabled |-> TRUE]}),
        d \in Opt("packageRules", {<<"r1">>}),
        e \in Opt("enabled", {TRUE}),
        f \in Opt("branchName", {"renovate/x"}),
        g \in Opt("prTitle", {"Update"}),
        h \in Opt("labels", {<<"dep">>}),
        u \in Opt("custom", {"u"}) }

\* the target stages handed to filterConfig: the seven stages and one that
\* is none of them
TargetStages == {stages[i] : i \in 1..Len(stages)} \cup {"lockFile"}

InitFilter ==
    /\ ParseIdle /\ MergeIdle
    /\ inputConfig \in FilterConfigs
    /\ filterArg = inputConfig
    /\ targetStage = "" /\ outputConfig = Undefined
    /\ prevStage = "" /\ prevOutput = Undefined

\* lines 178-198: filterConfig(inputConfig, stage) runs, after at most one
\* earlier call on the same inputConfig; it assigns to outputConfig only
FilterCall(stage) ==
    /\ ~prevOutput.defined
    /\ prevStage' = targetStage /\ prevOutput' = outputConfig
    /\ targetStage' = stage
    /\ outputConfig' = Some(filterConfig(inputConfig, stage))
    /\ UNCHANGED <<inputConfig, filterArg>>

NextFilter == (\E stage \in TargetStages : FilterCall(stage)) /\ UNCHANGED <<parseVars, mergeVars>>

SpecFilter == InitFilter /\ [][NextFilter]_vars

\* ===================================================================== claims

\* --- C1 (Spec): in the object handed to the Preset Resolver every key has the
\* value of the highest of the sources defaults < file < CLI < env that sets
\* it, and a key no source sets is absent.
SourcesInOrder == <<defaultConfig, fileConfig, cliConfig, envConfig>>

Setters(k) == {n \in 1..4 : Has(SourcesInOrder[n], k)}

HighestSetter(k) == CHOOSE n \in Setters(k) : \A m \in Setters(k) : m <= n

C1_Precedence ==
    pc = "presets" =>
        \A k \in DOMAIN presetInput \cup UNION {DOMAIN SourcesInOrder[n] : n \in 1..4} :
            IF Setters(k) = {} THEN ~Has(presetInput, k)
            ELSE Has(presetInput, k) /\ presetInput[k] = SourcesInOrder[HighestSetter(k)][k]

\* all four sources set platform, with three different values
C1_Witness ==
    /\ pc = "presets"
    /\ Setters("platform") = 1..4
    /\ defaultConfig.platform = "github" /\ fileConfig.platform = "bitbucket"
    /\ cliConfig.platform = "vsts" /\ envConfig.platform = "gitlab"
    /\ presetInput.platform = "gitlab"
    /\ Setters("token") = {2} /\ presetInput.token = "abc"

\* --- C2 (Spec): a configuration parseConfigs returns holds neither logFile
\* nor logFileLevel, on every return path.
C2_NoLogKeysReturned ==
    pc = "done" => ~Has(config.val, "logFile") /\ ~Has(config.val, "logFileLevel")

\* --- C3 (Spec): after a non-empty discovery, as claimed: a discovered
\* repository with the identifier of a configured entry leaves exactly one
\* entry with that identifier in the list, the configured one.
EntryId(repo) ==
    CASE repo.kind = "object" /\ Has(repo.cfg, "repository") -> <<"name", repo.cfg.repository>>
      [] repo.kind = "string" -> <<"name", repo.name>>
      [] OTHER -> <<"self", "">>

SameId(a, b) == EntryId(a)[1] = "name" /\ EntryId(a) = EntryId(b)

Configured == presetInput.repositories

DiscoveryMerged ==
    /\ pc \in {"repoPresets", "done"}
    /\ discovered.defined /\ Len(discovered.val) > 0

IdNonEmpty(repo) == EntryId(repo) # <<"name", "">>

Dropped(j) ==
    /\ IdNonEmpty(discovered.val[j])
    /\ \/ \E c \in DOMAIN Configured : SameId(Configured[c], discovered.val[j])
       \/ \E h \in 1..(j-1) : SameId(discovered.val[h], discovered.val[j])

RECURSIVE KeptFrom(_)
KeptFrom(j) ==
    IF j > Len(discovered.val) THEN <<>>
    ELSE IF Dropped(j) THEN KeptFrom(j + 1)
    ELSE <<discovered.val[j]>> \o KeptFrom(j + 1)

C4_EmptyDiscovery ==
    (discovered.defined /\ Len(discovered.val) = 0) =>
        /\ pc = "done" /\ error = NoError
        /\ Has(config.val, "repositories")
        /\ config.val.repositories = Configured

\* the lister returned nothing and two configured entries, objects with presets, are returned
C4_Witness ==
    /\ pc = "done" /\ discovered = Some(<<>>)
    /\ TruthyBool(config.val, "autodiscover")
    /\ listerCalls = <<"github">>
    /\ config.val.repositories =
           <<ObjectRepo([repository |-> "org/b", extends |-> <<":pinVersions">>]),
             ObjectRepo([repository |-> "org/a", extends |-> <<":base">>])>>

\* --- C5 (Spec): once the configuration is resolved with a platform other than
\* github, gitlab and vsts (or none), the run has failed with the unsupported
\* platform error and no lister was called, whatever the token and environment.
SupportedPlatforms == {"github", "gitlab", "vsts"}

ResolvedPlatformIn(S) ==
    config.defined /\ Has(config.val, "platform") /\ config.val.platform \in S

C5_UnsupportedPlatform ==
    (config.defined /\ ~ResolvedPlatformIn(SupportedPlatforms)) =>
        /\ pc = "error" /\ error = UnsupportedPlatformError
        /\ listerCalls = <<>>

\* bitbucket, with a token option, an environment credential and autodiscover set
C5_Witness ==
    /\ ResolvedPlatformIn({"bitbucket"})
    /\ TruthyStr(config.val, "token") /\ TruthyStr(env, "GITHUB_TOKEN")
    /\ TruthyBool(config.val, "autodiscover")
    /\ error = UnsupportedPlatformError

\* --- C6 (Spec): on a supported platform the run fails with that platform's
\* missing token error exactly when the configuration has no token and the
\* environment has no credential of that platform; no lister was called then.
TokenErrorOf(p) ==
    CASE p = "github" -> GithubTokenError
      [] p = "gitlab" -> GitlabTokenError
      [] p = "vsts" -> VstsTokenError

CredentialOf(p) ==
    CASE p = "github" -> "GITHUB_TOKEN"
      [] p = "gitlab" -> "GITLAB_TOKEN"
      [] p = "vsts" -> "VSTS_TOKEN"

TokenErrors == {GithubTokenError, GitlabTokenError, VstsTokenError}

C6_MissingToken ==
    ResolvedPlatformIn(SupportedPlatforms) =>
        LET p == config.val.platform
            missing == ~TruthyStr(config.val, "token") /\ ~TruthyStr(env, CredentialOf(p))
        IN  /\ (error \in TokenErrors) <=> missing
            /\ missing => /\ pc = "error" /\ error = TokenErrorOf(p)
                          /\ listerCalls = <<>>

\* github without a token option, the environment holds the GitLab credential only
C6_Witness ==
    /\ ResolvedPlatformIn({"github"})
    /\ ~Has(config.val, "token")
    /\ env = [GITLAB_TOKEN |-> "gl"]
    /\ TruthyBool(config.val, "autodiscover")
    /\ error = GithubTokenError

\* --- C10 (Spec): the repositories returned after the per-repository
\* resolution have the length and order of the mapped list: the resolver's
\* result for entry i at position i when entry i is an object, entry i itself
\* otherwise; the resolver ran once on every object entry and on no other.
C10_OrderPreserved ==
    (pc = "done" /\ Len(mapped) > 0) =>
        /\ Len(config.val.repositories) = Len(mapped)
        /\ \A i \in DOMAIN mapped :
               IF mapped[i].kind = "object"
               THEN /\ config.val.repositories[i] = ObjectRepo(resolveConfigPresets(mapped[i].cfg))
                    /\ resolverCalls[i] = 1
               ELSE /\ config.val.repositories[i] = mapped[i]
                    /\ resolverCalls[i] = 0

\* two different object entries, the second resolved before the first
C10_Witness ==
    /\ pc = "done"
    /\ Len(mapped) = 2
    /\ mapped[1].kind = "object" /\ mapped[2].kind = "object" /\ mapped[1] # mapped[2]
    /\ settled = <<2, 1>>

\* --- C7 (SpecMerge): mergeChildConfig returns the parent itself for an absent
\* child; otherwise every child key overwrites the parent's, except that a
\* mergeable option both define becomes, for a list, the parent's sequence
\* followed by the child's, and for another type the shallow merge in which
\* the child's keys win. An empty child list leaves the parent's list, and
\* neither argument is modified.
IsMergeable(k) == \E n \in DOMAIN Options : Options[n].name = k /\ Options[n].mergeable

IsListOption(k) == \E n \in DOMAIN Options : Options[n].name = k /\ Options[n].type = "list"

ShallowMerged(r, a, b) ==
    /\ DOMAIN r = DOMAIN a \cup DOMAIN b
    /\ \A x \in DOMAIN r : r[x] = IF x \in DOMAIN b THEN b[x] ELSE a[x]

C7_ReferenceMerge ==
    mergeResult.defined =>
        LET parent == mergeArgs[1]
            child == mergeArgs[2]
            returned == mergeResult.val
        IN  /\ parentConfig = parent /\ childConfig = child
            /\ ~child.defined => returned.ref = "parentConfig" /\ returned.val = parent
            /\ child.defined =>
                /\ DOMAIN returned.val = DOMAIN parent \cup DOMAIN child.val
                /\ \A k \in DOMAIN returned.val :
                       IF IsMergeable(k) /\ Has(parent, k) /\ Has(child.val, k)
                       THEN IF IsListOption(k)
                            THEN /\ returned.val[k] = parent[k] \o child.val[k]
                                 /\ child.val[k] = <<>> => returned.val[k] = parent[k]
                            ELSE ShallowMerged(returned.val[k], parent[k], child.val[k])
                       ELSE returned.val[k] = IF Has(child.val, k) THEN child.val[k] ELSE parent[k]

\* both define the mergeable list and the mergeable object, and the plain list
C7_Witness ==
    /\ mergeResult.defined /\ childConfig.defined
    /\ {"packageRules", "lockFileMaintenance", "labels"} \subseteq DOMAIN parentConfig
    /\ {"packageRules", "lockFileMaintenance", "labels"} \subseteq DOMAIN childConfig.val
    /\ parentConfig.packageRules = <<"r1", "r2">> /\ childConfig.val.packageRules = <<"r2", "r2">>
    /\ mergeResult.val.val.packageRules = <<"r1", "r2", "r2", "r2">>
    /\ parentConfig.lockFileMaintenance = [enabled |-> TRUE, schedule |-> "monday"]
    /\ childConfig.val.lockFileMaintenance = [schedule |-> "friday", recreate |-> TRUE]
    /\ mergeResult.val.val.lockFileMaintenance =
           [enabled |-> TRUE, schedule |-> "friday", recreate |-> TRUE]
    /\ parentConfig.labels = <<"dep">> /\ childConfig.val.labels = <<"bot">>
    /\ mergeResult.val.val.labels = <<"bot">>

\* --- C8 (SpecFilter): for a target stage of the order, filterConfig returns
\* the input without exactly the keys of registry options whose stage comes
\* strictly before the target in the order; every kept key has its input
\* value and the input is not modified.
StagePosition(st) == CHOOSE n \in DOMAIN stages : stages[n] = st

InOrder(st) == \E n \in DOMAIN stages : stages[n] = st

EarlierOptionKeys(target) ==
    {Options[n].name : n \in {m \in DOMAIN Options :
        InOrder(Options[m].stage) /\ StagePosition(Options[m].stage) < StagePosition(target)}}

C8_FilterExact ==
    (outputConfig.defined /\ InOrder(targetStage)) =>
        /\ DOMAIN outputConfig.val = DOMAIN filterArg \ EarlierOptionKeys(targetStage)
        /\ \A k \in DOMAIN outputConfig.val : outputConfig.val[k] = filterArg[k]
        /\ inputConfig = filterArg

\* every key is set and the target is package: the four earlier options go
C8_Witness ==
    /\ outputConfig.defined /\ targetStage = "package"
    /\ DOMAIN filterArg = OptionNames \cup {"custom"}
    /\ DOMAIN outputConfig.val = {"enabled", "branchName", "prTitle", "labels", "custom"}

\* --- C9 (SpecFilter): as claimed, on the same input the keys removed for
\* target pr are a strict superset of the keys removed for target package.
Removed(out) == DOMAIN filterArg \ DOMAIN out.val

C9_StrictSuperset ==
    (outputConfig.defined /\ prevOutput.defined /\ prevStage = "package" /\ targetStage = "pr") =>
        /\ Removed(prevOutput) \subseteq Removed(outputConfig)
        /\ Removed(prevOutput) # Removed(outputConfig)

\* --- C9 amended (SpecFilter): on the same input the keys removed for a later
\* target stage include the keys removed for an earlier one; for pr against
\* package the inclusion is strict exactly when the input holds the key of an
\* option of stage package or branch.
OptionKeysOfStages(S) == {Options[n].name : n \in {m \in DOMAIN Options : Options[m].stage \in S}}

C9_Monotone ==
    (outputConfig.defined /\ prevOutput.defined /\ InOrder(prevStage) /\ InOrder(targetStage)) =>
        /\ StagePosition(prevStage) <= StagePosition(targetStage) =>
               Removed(prevOutput) \subseteq Removed(outputConfig)
        /\ StagePosition(targetStage) <= StagePosition(prevStage) =>
               Removed(outputConfig) \subseteq Removed(prevOutput)
        /\ (prevStage = "package" /\ targetStage = "pr") =>
               (Removed(prevOutput) # Removed(outputConfig)
                   <=> DOMAIN filterArg \cap OptionKeysOfStages({"package", "branch"}) # {})

\* filtered to package, then to pr, an input holding a package-stage key
C9_Witness ==
    /\ outputConfig.defined /\ prevOutput.defined
    /\ prevStage = "package" /\ targetStage = "pr"
    /\ Has(filterArg, "enabled") /\ Has(filterArg, "token")
    /\ Removed(prevOutput) = {"token"}
    /\ Removed(outputConfig) = {"token", "enabled"}

====
